---------------------------- MODULE Spec2Model ----------------------------
(***************************************************************************)
(* Notes API (backend/server.js): the request pipeline of the four /notes  *)
(* routes over the Prisma note store and the Supabase token check.         *)
(*                                                                         *)
(* A request is a process that suspends at every await of server.js: the   *)
(* provider call of authenticateUser, and each store call of its handler.  *)
(* The code between two awaits runs without interleaving (one JavaScript   *)
(* thread), so each action below is one such segment, together with the    *)
(* store or provider operation whose result resumes it.                    *)
(***************************************************************************)
EXTENDS Integers, Sequences, FiniteSets, TLC

(***************************************************************************)
(* Bounds of the model.                                                    *)
(***************************************************************************)
\* requests in flight at the same time (request slots, reused for ever)
MaxReq == 2
\* notes the store may hold
MaxNotes == 2
\* largest reading of the clock (createdAt, deletedAt)
MaxTime == 1
\* page requests the paging client needs at most for the lists it is given
MaxPages == 3

(***************************************************************************)
(* Program constants.                                                      *)
(***************************************************************************)
TitleMin == 1
TitleMax == 200
ContentMax == 5000
LimitCap == 100
LimitDefault == 10
OffsetDefault == 0

(***************************************************************************)
(* JavaScript values.  Every value is a record tagged by its type, so that *)
(* values of different types can be compared.  A string is written as a    *)
(* run: the character ch repeated len times ("a".repeat(200)); the empty   *)
(* string is the run of length 0 of the character "".                      *)
(***************************************************************************)
Undefined == [t |-> "undefined"]
Null == [t |-> "null"]
Str(c, n) == IF n = 0 THEN [t |-> "string", ch |-> "", len |-> 0]
             ELSE [t |-> "string", ch |-> c, len |-> n]
NaN == [t |-> "number", kind |-> "nan", v |-> 0]
Num(i) == [t |-> "number", kind |-> "int", v |-> i]
\* a number that is not an integer, with its integer part
Frac(i) == [t |-> "number", kind |-> "frac", v |-> i]
Date(ms) == [t |-> "date", ms |-> ms]
\* the text of a path or query parameter, kept as written
Text(s) == [t |-> "text", s |-> s]

\* JavaScript truthiness of the values the routes test
Truthy(x) == CASE x.t = "undefined" -> FALSE
               [] x.t = "null" -> FALSE
               [] x.t = "string" -> x.len > 0
               [] x.t = "text" -> x.s # ""
               [] x.t = "number" -> x.kind # "nan" /\ ~(x.kind = "int" /\ x.v = 0)
               [] OTHER -> TRUE
\* a || b
OrElse(a, b) == IF Truthy(a) THEN a ELSE b

(***************************************************************************)
(* Decimal texts of the model (path parameters, query parameters) and the  *)
(* two conversions server.js applies to them.                              *)
(***************************************************************************)
Digits == <<"1", "2", "3", "4", "5", "6", "7", "8", "9", "10",
            "11", "12", "13", "14", "15", "16", "17", "18", "19", "20",
            "21", "22", "23", "24", "25", "26", "27", "28", "29", "30">>
DecimalOf(s) == CHOOSE i \in 1..Len(Digits) : Digits[i] = s
IsDecimal(s) == \E i \in 1..Len(Digits) : Digits[i] = s

\* Number(text): the whole text must be a number
Number(s) == CASE s \in {"abc", "12abc", "5abc"} -> NaN
               [] s = "0" -> Num(0)
               [] s = "-1" -> Num(-1)
               [] s = "1.5" -> Frac(1)
               [] s = "100" -> Num(100)
               [] s = "101" -> Num(101)
               [] IsDecimal(s) -> Num(DecimalOf(s))
               [] OTHER -> NaN
\* the longest beginning of a text that is an integer numeral: what
\* parseInt reads before it stops at a character that is no digit
Lead(s) == CASE s = "abc" -> ""
             [] s = "12abc" -> "12"
             [] s = "5abc" -> "5"
             [] s = "1.5" -> "1"
             [] OTHER -> s
\* Number.parseInt(text, 10): the leading integer of the text, NaN when it
\* has none; NaN for undefined
ParseInt(q) ==
    IF q.t # "text" THEN NaN
    ELSE IF Lead(q.s) = "" THEN NaN
    ELSE Number(Lead(q.s))
\* Number.isInteger
IsInteger(x) == x.t = "number" /\ x.kind = "int"

Min(a, b) == IF a <= b THEN a ELSE b
Max(a, b) == IF a >= b THEN a ELSE b

(***************************************************************************)
(* validation/note.schema.js: noteSchema, as safeParse and flatten use it. *)
(* A body is what express.json() leaves in req.body: an object (its title, *)
(* content and userId keys, Undefined when absent) or an array.            *)
(***************************************************************************)
Obj(title, content, userId) ==
    [t |-> "object", title |-> title, content |-> content, userId |-> userId]
Arr == [t |-> "array"]

Issue(path, message) == [path |-> path, message |-> message]

\* a plausible slip: the upper bound of the title taken as exclusive
TitleIssuesExclusive(v) ==
    CASE v.t = "undefined" -> <<Issue("title", "Required")>>
      [] v.t # "string" -> <<Issue("title", "Expected string, received number")>>
      [] v.len < TitleMin -> <<Issue("title", "Title is required")>>
      [] v.len >= TitleMax -> <<Issue("title", "Title too long")>>
      [] OTHER -> <<>>

\* title: z.string().min(1, "Title is required").max(200, "Title too long")
TitleIssues(v) ==
    CASE v.t = "undefined" -> <<Issue("title", "Required")>>
      [] v.t # "string" -> <<Issue("title", "Expected string, received number")>>
      [] v.len < TitleMin -> <<Issue("title", "Title is required")>>
      [] v.len > TitleMax -> <<Issue("title", "Title too long")>>
      [] OTHER -> <<>>

\* content: z.string().max(5000, "Content too long").optional()
ContentIssues(v) ==
    CASE v.t = "undefined" -> <<>>
      [] v.t # "string" -> <<Issue("content", "Expected string, received number")>>
      [] v.len > ContentMax -> <<Issue("content", "Content too long")>>
      [] OTHER -> <<>>

\* z.object({title, content}): the issues of a body, title first
SchemaIssues(body) ==
    IF body.t # "object" THEN <<Issue("", "Expected object, received array")>>
    ELSE TitleIssues(body.title) \o ContentIssues(body.content)

\* noteSchema.safeParse(body): data keeps the schema's keys only
SafeParse(body) ==
    LET issues == SchemaIssues(body) IN
    IF issues = <<>>
    THEN [success |-> TRUE,
          data |-> [title |-> body.title, content |-> body.content],
          error |-> <<>>]
    ELSE [success |-> FALSE, data |-> Undefined, error |-> issues]

RECURSIVE MessagesAt(_, _)
MessagesAt(issues, path) ==
    IF issues = <<>> THEN <<>>
    ELSE (IF Head(issues).path = path THEN <<Head(issues).message>> ELSE <<>>)
         \o MessagesAt(Tail(issues), path)

\* parsed.error.flatten(): form-level messages, and the messages of each
\* field that has any
Flatten(issues) ==
    LET fields == {issues[i].path : i \in 1..Len(issues)} \ {""} IN
    [t |-> "details",
     formErrors |-> MessagesAt(issues, ""),
     fieldErrors |-> [f \in fields |-> MessagesAt(issues, f)]]

(***************************************************************************)
(* The inputs of the model.                                                *)
(***************************************************************************)
Slots == 1..MaxReq
Methods == {"POST", "GET", "PUT", "DELETE"}

\* req.headers.authorization: Undefined (no header), or the header's value
\* as Node hands it over, without surrounding blanks, written as the
\* sequence of its pieces: the piece "Bearer " (the scheme and its blank),
\* the piece "Bearer" (the scheme alone, as "Authorization: Bearer " comes
\* in) and pieces of token text; <<>> is the empty value.
Header(parts) == [t |-> "header", parts |-> parts]
Headers == {Undefined,
            Header(<<>>),
            Header(<<"Bearer">>),
            Header(<<"Bearer ", "tok-1">>),
            Header(<<"Bearer ", "tok-2">>),
            Header(<<"Bearer ", "stale">>)}

\* the :id path parameters: not a number, zero, and the ids 1..MaxNotes+1
\* (the last one is never the id of a note)
IdParams == {"abc", "0"} \cup {Digits[i] : i \in 1..(MaxNotes + 1)}

\* request bodies: accepted ones, and one for each way of being refused
Bodies ==
    {Obj(Str("t", 1), Str("", 0), Undefined),
     Obj(Str("T", TitleMax), Str("C", ContentMax), Undefined),
     Obj(Str("n", 1), Undefined, Undefined),
     Obj(Str("t", 1), Str("", 0), Str("user-2", 1)),
     Obj(Str("", 0), Undefined, Undefined),
     Obj(Str("T", TitleMax + 1), Str("c", 1), Undefined),
     Obj(Str("t", 1), Str("C", ContentMax + 1), Undefined),
     Obj(Undefined, Str("c", 1), Undefined),
     Obj(Num(5), Num(7), Undefined),
     Arr}

\* the limit and offset query parameters
Limits == {Undefined, Text("abc"), Text("12abc"), Text("1.5"), Text("0"),
           Text("-1"), Text("1"), Text("2"), Text("101")}
Offsets == {Undefined, Text("abc"), Text("5abc"), Text("-1"), Text("1")}

\* the inputs of the requests that run concurrently: for each input, one
\* accepted value of each kind and one refused value
SomeHeaders == {Undefined, Header(<<"Bearer ", "tok-1">>),
                Header(<<"Bearer ", "tok-2">>), Header(<<"Bearer ", "stale">>)}
SomeIds == {"abc", "1", "2"}
NewBodies == {Obj(Str("T", TitleMax), Str("C", ContentMax), Undefined),
              Obj(Str("", 0), Undefined, Undefined)}
EditBodies == {Obj(Str("n", 1), Str("", 0), Undefined),
               Obj(Str("", 0), Undefined, Undefined)}
SomeLimits == {Undefined}
\* the inputs of the owner's edits that run concurrently: one token, the
\* ids of the notes, two bodies that differ in title and in content
OwnerHeaders == {Header(<<"Bearer ", "tok-1">>)}
NoteIdParams == {Digits[i] : i \in 1..MaxNotes}
FirstBodies == {Obj(Str("T", TitleMax), Str("C", ContentMax), Undefined)}
TwoBodies == {Obj(Str("a", 1), Str("x", 1), Undefined),
              Obj(Str("b", 1), Str("y", 1), Undefined)}
SomeOffsets == {Undefined}

(***************************************************************************)
(* State.                                                                  *)
(*   notes     the note table: notes[i] is the row of id i                 *)
(*   now       the clock that createdAt and new Date() read                *)
(*   req       the requests in flight, one per slot                        *)
(*   env       process.env.NODE_ENV                                        *)
(*   accepted  the tokens the identity provider accepts at present         *)
(*   pager     the client that fetches the list page by page               *)
(***************************************************************************)
VARIABLES notes, now, req, env, accepted, pager
vars == <<notes, now, req, env, accepted, pager>>
\* what no request handler changes
outside == <<env, accepted, pager>>

\* the client before its first page: the offset of the next page, the ids
\* of the notes received so far, the pages received, whether it has stopped
NoPages == [offset |-> 0, seen |-> <<>>, pages |-> 0, stopped |-> FALSE]

NoCall == [op |-> "none"]
NoResponse == [status |-> 0, error |-> "", details |-> Undefined, json |-> Undefined]
Idle == [pc |-> "idle", method |-> "-", header |-> Undefined, token |-> <<>>,
         asked |-> FALSE, user |-> Undefined, id |-> Undefined,
         body |-> Undefined, query |-> Undefined, call |-> NoCall,
         ops |-> <<>>, thrown |-> Undefined, res |-> NoResponse]

\* res.status(s).json({error, details})
Fail(s, error, details) ==
    [status |-> s, error |-> error, details |-> details, json |-> Undefined]
\* res.json(value): status 200
Ok(value) == [status |-> 200, error |-> "", details |-> Undefined, json |-> value]

NoteIds == 1..Len(notes)
\* requests whose create call the store has still to run
Creating == {r \in Slots : req[r].pc = "create"}

\* the tokens the provider has issued, and the user of each
Issued == {<<"tok-1">>, <<"tok-2">>}
UserIdOf(token) == IF token = <<"tok-1">> THEN "user-1" ELSE "user-2"

\* the server starts with an empty table; server.js loads only with
\* NODE_ENV "production" (in any other mode line 27 calls dotenv, which the
\* file never defines, and the load throws before express() is called)
Init ==
    /\ notes = <<>>
    /\ now = 0
    /\ req = [r \in Slots |-> Idle]
    /\ env = Text("production")
    /\ accepted = Issued
    /\ pager = NoPages

(***************************************************************************)
(* The identity provider: supabase.auth.getUser(token).  It answers the    *)
(* user of a token it accepts at present; any other token is refused with  *)
(* an error, or answered without a user.                                   *)
(***************************************************************************)
UserOf(id) == [t |-> "user", id |-> id]
\* the provider's answers to a token
Answers(token, tokens) ==
    IF token \in tokens
    THEN {[user |-> UserOf(UserIdOf(token)), error |-> Null]}
    ELSE {[user |-> Null, error |-> [t |-> "error", message |-> "invalid JWT"]],
          [user |-> Null, error |-> Null]}

\* a plausible slip: the answer taken from what the provider said when the
\* token was issued, not asked again
GetUserCached(token) == Answers(token, Issued)

GetUser(token) == Answers(token, accepted)

\* the provider stops accepting a token (it expires, the user signs out)
Revoke(token) ==
    /\ token \in accepted
    /\ accepted' = accepted \ {token}
    /\ UNCHANGED <<notes, now, req, env, pager>>

\* header.replace("Bearer ", ""): the first "Bearer " piece removed;
\* Undefined for an absent header (the ?. of line 147)
RECURSIVE RemoveFirst(_, _)
RemoveFirst(parts, piece) ==
    IF parts = <<>> THEN <<>>
    ELSE IF Head(parts) = piece THEN Tail(parts)
    ELSE <<Head(parts)>> \o RemoveFirst(Tail(parts), piece)
TokenOf(header) ==
    IF header.t = "undefined" THEN <<>> ELSE RemoveFirst(header.parts, "Bearer ")

\* authenticateUser up to its await: no token answers 401, else the
\* provider is asked
Arrive(r, methods, headers) ==
    /\ req[r].pc = "idle"
    /\ \E m \in methods, h \in headers :
         /\ LET token == TokenOf(h)
                base == [Idle EXCEPT !.method = m, !.header = h]
            IN req' = [req EXCEPT ![r] =
                 IF token = <<>>
                 THEN [base EXCEPT !.pc = "done",
                                   !.res = Fail(401, "Missing token", Undefined)]
                 ELSE [base EXCEPT !.pc = "getUser", !.token = token, !.asked = TRUE]]
    /\ UNCHANGED <<notes, now, outside>>

\* the request as Express hands it to authenticateUser: its method and
\* header, the :id of the path (PUT, DELETE) and the parsed body (POST, PUT)
Request(m, h, p, body) ==
    [Idle EXCEPT !.method = m, !.header = h,
                 !.id = IF m \in {"PUT", "DELETE"} THEN Text(p) ELSE Undefined,
                 !.body = IF m \in {"POST", "PUT"} THEN body ELSE Undefined]

\* authenticateUser up to its await, for a request whose path parameter
\* and body are fixed when it arrives: neither is looked at
ArriveWith(r, methods, headers, ids, bodies) ==
    /\ req[r].pc = "idle"
    /\ \E m \in methods, h \in headers, p \in ids, body \in bodies :
         LET token == TokenOf(h)
             base == Request(m, h, p, body)
         IN req' = [req EXCEPT ![r] =
              IF token = <<>>
              THEN [base EXCEPT !.pc = "done",
                                !.res = Fail(401, "Missing token", Undefined)]
              ELSE [base EXCEPT !.pc = "getUser", !.token = token, !.asked = TRUE]]
    /\ UNCHANGED <<notes, now, outside>>

\* the path parameter and the body a request arrived with
IdGiven(r) == IF req[r].id = Undefined THEN {} ELSE {req[r].id.s}
BodyGiven(r) == IF req[r].body = Undefined THEN {} ELSE {req[r].body}

\* the provider's answers that authenticateUser refuses
Refused(a) == a.error # Null \/ a.user = Null

\* authenticateUser after its await, on a refused token
AuthReject(r) ==
    /\ req[r].pc = "getUser"
    /\ \E a \in GetUser(req[r].token) :
         /\ Refused(a)
         /\ req' = [req EXCEPT ![r].pc = "done",
                               ![r].res = Fail(401, "Invalid token", Undefined)]
    /\ UNCHANGED <<notes, now, outside>>

(***************************************************************************)
(* The note store (Prisma's note model).                                   *)
(***************************************************************************)
\* the clock is read: time may have passed since it was last read
Clock == now..Min(now + 1, MaxTime)

\* prisma.note.create({data}): the next id, createdAt now, not deleted;
\* a content left out is stored as null
CreateRow(data, t) ==
    [id |-> Len(notes) + 1,
     title |-> data.title,
     content |-> IF data.content = Undefined THEN Null ELSE data.content,
     userId |-> data.userId,
     createdAt |-> Date(t),
     deletedAt |-> Null]

\* prisma.note.findUnique({where: {id}}): the row, or null
FindUnique(id) == IF id \in NoteIds THEN notes[id] ELSE Null

\* a plausible slip: an update that fills the content in only where the
\* row has none
UpdateRowKeepContent(row, data) ==
    [f \in DOMAIN row |->
        IF f \in DOMAIN data /\ data[f] # Undefined
           /\ ~(f = "content" /\ row[f] # Null)
        THEN data[f] ELSE row[f]]

\* a plausible slip: an update that writes the whole row, deletedAt reset
\* to null when data does not give it
UpdateRowReset(row, data) ==
    [f \in DOMAIN row |->
        IF f \in DOMAIN data /\ data[f] # Undefined THEN data[f]
        ELSE IF f = "deletedAt" THEN Null ELSE row[f]]

\* prisma.note.update({where: {id}, data}): the fields of data that are
\* not undefined overwrite the row's
UpdateRow(row, data) ==
    [f \in DOMAIN row |->
        IF f \in DOMAIN data /\ data[f] # Undefined THEN data[f] ELSE row[f]]

\* a plausible slip: the deletedAt filter left out of the where clause
MatchingDeletedToo(userId) ==
    {i \in NoteIds : notes[i].userId = userId}

\* where: {userId, deletedAt: null}
Matching(userId) ==
    {i \in NoteIds : notes[i].userId = userId /\ notes[i].deletedAt = Null}

\* orderBy: {createdAt: "desc"}: every order of the rows that is descending
\* in createdAt (rows of equal createdAt come in any order)
RECURSIVE Orderings(_)
Orderings(rows) ==
    IF rows = {} THEN {<<>>}
    ELSE LET newest == {i \in rows : \A j \in rows :
                           notes[i].createdAt.ms >= notes[j].createdAt.ms}
         IN UNION {{<<i>> \o s : s \in Orderings(rows \ {i})} : i \in newest}

\* skip and take on an ordered list: a negative take counts from the end
Window(s, take, skip) ==
    LET n == Len(s) IN
    IF take >= 0
    THEN SubSeq(s, skip + 1, Min(n, skip + take))
    ELSE SubSeq(s, Max(1, n - skip + take + 1), n - skip)

\* prisma.note.findMany({where, orderBy, take, skip}): the possible results
FindMany(userId, take, skip) ==
    {[k \in 1..Len(w) |-> notes[w[k]]] :
        w \in {Window(s, take, skip) : s \in Orderings(Matching(userId))}}

(***************************************************************************)
(* The route handlers.  Each starts in the segment of authenticateUser     *)
(* that follows the provider's answer: the user is attached, next() runs   *)
(* the handler up to its first store call.                                 *)
(***************************************************************************)
\* authenticateUser after its await, on an accepted token: req.user = user
Verified(r, m, a) ==
    /\ req[r].pc = "getUser"
    /\ req[r].method = m
    /\ a \in GetUser(req[r].token)
    /\ ~Refused(a)

\* a plausible slip: the gate tests only that the note exists
NotOwnerAbsentOnly(note, user) == note = Null

\* the ownership gate of DELETE and PUT
NotOwner(note, user) == note = Null \/ note.userId # user.id

\* the id gate of DELETE and PUT
InvalidId(noteId) == ~IsInteger(noteId) \/ noteId.v <= 0

\* POST /notes up to prisma.note.create
PostNotes(r, bodies) ==
    /\ \E a \in GetUser(req[r].token), body \in bodies :
         /\ Verified(r, "POST", a)
         /\ LET parsed == SafeParse(body)
                base == [req[r] EXCEPT !.user = a.user, !.body = body]
            IN IF ~parsed.success
               THEN req' = [req EXCEPT ![r] =
                      [base EXCEPT !.pc = "done",
                         !.res = Fail(400, "Invalid input", Flatten(parsed.error))]]
               ELSE /\ Len(notes) + Cardinality(Creating) < MaxNotes
                    /\ req' = [req EXCEPT ![r] =
                         [base EXCEPT !.pc = "create",
                            !.call = [op |-> "create",
                                      data |-> [title |-> parsed.data.title,
                                                content |-> parsed.data.content,
                                                userId |-> a.user.id]]]]
    /\ UNCHANGED <<notes, now, outside>>

\* the store creates the row; POST /notes answers it
StoreCreate(r) ==
    /\ req[r].pc = "create"
    /\ \E t \in Clock :
         LET row == CreateRow(req[r].call.data, t) IN
         /\ notes' = Append(notes, row)
         /\ now' = t
         /\ req' = [req EXCEPT ![r].pc = "done", ![r].call = NoCall,
                               ![r].ops = Append(@, "create"),
                               ![r].res = Ok(row)]
    /\ UNCHANGED outside

\* the limit and offset that GET /notes passes to findMany
EffectiveLimit(l) == Min(LimitCap, OrElse(ParseInt(l), Num(LimitDefault)).v)
EffectiveOffset(o) == Max(0, OrElse(ParseInt(o), Num(OffsetDefault)).v)

\* GET /notes up to prisma.note.findMany
GetNotes(r, limits, offsets) ==
    /\ \E a \in GetUser(req[r].token), l \in limits, o \in offsets :
         /\ Verified(r, "GET", a)
         /\ req' = [req EXCEPT ![r].user = a.user,
                               ![r].query = [limit |-> l, offset |-> o],
                               ![r].pc = "findMany",
                               ![r].call = [op |-> "findMany",
                                            userId |-> a.user.id,
                                            take |-> EffectiveLimit(l),
                                            skip |-> EffectiveOffset(o)]]
    /\ UNCHANGED <<notes, now, outside>>

\* the store runs the query; GET /notes answers the rows
StoreFindMany(r) ==
    /\ req[r].pc = "findMany"
    /\ \E rows \in FindMany(req[r].call.userId, req[r].call.take, req[r].call.skip) :
         req' = [req EXCEPT ![r].pc = "done", ![r].call = NoCall,
                            ![r].ops = Append(@, "findMany"),
                            ![r].res = Ok(rows)]
    /\ UNCHANGED <<notes, now, outside>>

\* DELETE /notes/:id up to prisma.note.findUnique
DeleteNote(r, ids) ==
    /\ \E a \in GetUser(req[r].token), p \in ids :
         /\ Verified(r, "DELETE", a)
         /\ LET noteId == Number(p)
                base == [req[r] EXCEPT !.user = a.user, !.id = Text(p)]
            IN req' = [req EXCEPT ![r] =
                 IF InvalidId(noteId)
                 THEN [base EXCEPT !.pc = "done",
                                   !.res = Fail(400, "Invalid note id", Undefined)]
                 ELSE [base EXCEPT !.pc = "findUnique",
                                   !.call = [op |-> "findUnique", id |-> noteId.v]]]
    /\ UNCHANGED <<notes, now, outside>>

\* the gate of DELETE after its lookup: the refusal, or NoResponse to go on
DeleteGate(note, user) ==
    IF NotOwner(note, user) THEN Fail(403, "Forbidden", Undefined)
    ELSE NoResponse

\* a plausible slip: the soft delete also blanks the content
DeleteFoundBlanks(r) ==
    /\ req[r].pc = "findUnique"
    /\ req[r].method = "DELETE"
    /\ LET note == FindUnique(req[r].call.id)
           gate == DeleteGate(note, req[r].user)
           base == [req[r] EXCEPT !.ops = Append(@, "findUnique")]
       IN IF gate # NoResponse
          THEN /\ req' = [req EXCEPT ![r] =
                    [base EXCEPT !.pc = "done", !.call = NoCall, !.res = gate]]
               /\ now' = now
          ELSE \E t \in Clock :
                 /\ req' = [req EXCEPT ![r] =
                      [base EXCEPT !.pc = "update",
                         !.call = [op |-> "update", id |-> req[r].call.id,
                                   data |-> [deletedAt |-> Date(t),
                                             content |-> Null]]]]
                 /\ now' = t
    /\ UNCHANGED <<notes, outside>>

\* the store answers the lookup; DELETE checks the owner and asks the
\* store to set deletedAt to new Date()
DeleteFound(r) ==
    /\ req[r].pc = "findUnique"
    /\ req[r].method = "DELETE"
    /\ LET note == FindUnique(req[r].call.id)
           gate == DeleteGate(note, req[r].user)
           base == [req[r] EXCEPT !.ops = Append(@, "findUnique")]
       IN IF gate # NoResponse
          THEN /\ req' = [req EXCEPT ![r] =
                    [base EXCEPT !.pc = "done", !.call = NoCall, !.res = gate]]
               /\ now' = now
          ELSE \E t \in Clock :
                 /\ req' = [req EXCEPT ![r] =
                      [base EXCEPT !.pc = "update",
                         !.call = [op |-> "update", id |-> req[r].call.id,
                                   data |-> [deletedAt |-> Date(t)]]]]
                 /\ now' = t
    /\ UNCHANGED <<notes, outside>>

\* the store writes deletedAt; DELETE answers {success: true}
DeleteApply(r) ==
    /\ req[r].pc = "update"
    /\ req[r].method = "DELETE"
    /\ req[r].call.id \in NoteIds
    /\ notes' = [notes EXCEPT ![req[r].call.id] = UpdateRow(@, req[r].call.data)]
    /\ req' = [req EXCEPT ![r].pc = "done", ![r].call = NoCall,
                          ![r].ops = Append(@, "update"),
                          ![r].res = Ok([success |-> TRUE])]
    /\ UNCHANGED <<now, outside>>

\* a plausible slip: the body validated before the id
PutNoteBodyFirst(r, ids, bodies) ==
    /\ \E a \in GetUser(req[r].token), p \in ids, body \in bodies :
         /\ Verified(r, "PUT", a)
         /\ LET noteId == Number(p)
                parsed == SafeParse(body)
                base == [req[r] EXCEPT !.user = a.user, !.id = Text(p), !.body = body]
            IN req' = [req EXCEPT ![r] =
                 IF ~parsed.success
                 THEN [base EXCEPT !.pc = "done",
                         !.res = Fail(400, "Invalid input", Flatten(parsed.error))]
                 ELSE IF InvalidId(noteId)
                 THEN [base EXCEPT !.pc = "done",
                                   !.res = Fail(400, "Invalid note id", Undefined)]
                 ELSE IF ~Truthy(parsed.data.title)
                 THEN [base EXCEPT !.pc = "done",
                                   !.res = Fail(400, "Title required", Undefined)]
                 ELSE [base EXCEPT !.pc = "findUnique",
                         !.call = [op |-> "findUnique", id |-> noteId.v,
                                   data |-> parsed.data]]]
    /\ UNCHANGED <<notes, now, outside>>

\* PUT /notes/:id up to prisma.note.findUnique
PutNote(r, ids, bodies) ==
    /\ \E a \in GetUser(req[r].token), p \in ids, body \in bodies :
         /\ Verified(r, "PUT", a)
         /\ LET noteId == Number(p)
                parsed == SafeParse(body)
                base == [req[r] EXCEPT !.user = a.user, !.id = Text(p), !.body = body]
            IN req' = [req EXCEPT ![r] =
                 IF InvalidId(noteId)
                 THEN [base EXCEPT !.pc = "done",
                                   !.res = Fail(400, "Invalid note id", Undefined)]
                 ELSE IF ~parsed.success
                 THEN [base EXCEPT !.pc = "done",
                         !.res = Fail(400, "Invalid input", Flatten(parsed.error))]
                 ELSE IF ~Truthy(parsed.data.title)
                 THEN [base EXCEPT !.pc = "done",
                                   !.res = Fail(400, "Title required", Undefined)]
                 ELSE [base EXCEPT !.pc = "findUnique",
                         !.call = [op |-> "findUnique", id |-> noteId.v,
                                   data |-> parsed.data]]]
    /\ UNCHANGED <<notes, now, outside>>

\* a plausible slip: the deleted gate tests a field the row does not have
IsDeletedNever(note) == Truthy(Undefined)

\* the deleted gate of PUT
IsDeleted(note) == Truthy(note.deletedAt)

\* a plausible slip: the deleted gate placed before the ownership gate
PutGateDeletedFirst(note, user) ==
    IF note # Null /\ IsDeleted(note)
    THEN Fail(400, "Cannot modify deleted note", Undefined)
    ELSE IF NotOwner(note, user) THEN Fail(403, "Forbidden", Undefined)
    ELSE NoResponse

\* the gates of PUT after its lookup, in the order of the code: the
\* refusal, or NoResponse to go on
PutGate(note, user) ==
    IF NotOwner(note, user) THEN Fail(403, "Forbidden", Undefined)
    ELSE IF IsDeleted(note) THEN Fail(400, "Cannot modify deleted note", Undefined)
    ELSE NoResponse

\* the store answers the lookup; PUT checks the owner and the deleted
\* state and asks the store to overwrite title and content
PutFound(r) ==
    /\ req[r].pc = "findUnique"
    /\ req[r].method = "PUT"
    /\ LET note == FindUnique(req[r].call.id)
           gate == PutGate(note, req[r].user)
           base == [req[r] EXCEPT !.ops = Append(@, "findUnique")]
       IN req' = [req EXCEPT ![r] =
            IF gate # NoResponse
            THEN [base EXCEPT !.pc = "done", !.call = NoCall, !.res = gate]
            ELSE [base EXCEPT !.pc = "update",
                    !.call = [op |-> "update", id |-> req[r].call.id,
                              data |-> req[r].call.data]]]
    /\ UNCHANGED <<notes, now, outside>>

\* the store overwrites title and content; PUT answers the updated row
PutApply(r) ==
    /\ req[r].pc = "update"
    /\ req[r].method = "PUT"
    /\ req[r].call.id \in NoteIds
    /\ LET row == UpdateRow(notes[req[r].call.id], req[r].call.data) IN
       /\ notes' = [notes EXCEPT ![req[r].call.id] = row]
       /\ req' = [req EXCEPT ![r].pc = "done", ![r].call = NoCall,
                             ![r].ops = Append(@, "update"),
                             ![r].res = Ok(row)]
    /\ UNCHANGED <<now, outside>>

(***************************************************************************)
(* Failures.  A store or provider call may reject instead of answering:    *)
(* wrapAsync (or the catch of authenticateUser) passes the error to next,  *)
(* and the central error handler answers it.                               *)
(***************************************************************************)
\* an Error object: its message, and the code and status it may carry
Err(message, code, status) ==
    [t |-> "error", message |-> Text(message), code |-> code, status |-> status]

\* what the store throws: a plain Error, and Prisma's error with its code
StoreFailures == {Err("boom", Undefined, Undefined),
                  Err("database unreachable", Text("P1001"), Undefined)}
\* what the provider call throws: the transport's error, and an error that
\* carries a status of its own
ProviderFailures == {Err("fetch failed", Undefined, Undefined),
                     Err("unavailable", Undefined, Num(503))}

\* the values NODE_ENV takes: the one the server loads with, and the ones
\* assigned to it while the server runs (the test suite's modes)
Modes == {Text("production"), Text("development"), Text("test")}

\* process.env.NODE_ENV is assigned while the server runs
SetEnv(mode) ==
    /\ mode # env
    /\ env' = mode
    /\ UNCHANGED <<notes, now, req, accepted, pager>>

\* express.json() in its strict mode takes a payload that is a JSON object
\* or array; a JSON string, number or null, and a text that is no JSON,
\* it refuses
Strict(payload) == payload.t \in {"object", "array"}
Malformed == Text("{\"title\":}")
Payloads == {Str("t", 1), Num(5), Null, Malformed}

\* what express.json() passes to next for a body it refuses: not an
\* object or array in JSON, above its size limit, in a charset it does
\* not support
NotJson == {Err("Unexpected token } in JSON", Undefined, Num(400))}
Unreadable == {Err("request entity too large", Undefined, Num(413)),
               Err("unsupported charset", Undefined, Num(415))}
ParserFailures == NotJson \cup Unreadable

\* a plausible slip: every mode but production taken as development
ErrorHandlerNotProduction(err, mode) ==
    LET status == OrElse(err.status, Num(500)).v
        isDev == mode # Text("production")
        message == IF isDev
                   THEN OrElse(err.message, Text("Internal Server Error"))
                   ELSE Text("Internal Server Error")
    IN Fail(status, message.s,
            IF isDev THEN OrElse(err.code, err.message) ELSE Undefined)

\* the central error handler: the response to an error passed to next
ErrorHandler(err, mode) ==
    LET status == OrElse(err.status, Num(500)).v
        isDev == mode = Text("development")
        message == IF isDev
                   THEN OrElse(err.message, Text("Internal Server Error"))
                   ELSE Text("Internal Server Error")
    IN Fail(status, message.s,
            IF isDev THEN OrElse(err.code, err.message) ELSE Undefined)

\* express.json(), mounted before every route: a body it refuses goes to
\* next(err) and the central handler answers; authenticateUser and the
\* route's handler do not run.  A payload it has read is refused as no
\* JSON; one it does not read (body Undefined), for its size or charset
Unparsed(r, requests, failures) ==
    /\ req[r].pc = "idle"
    /\ \E q \in requests, err \in failures :
         /\ IF q.body = Undefined THEN err \in Unreadable
            ELSE ~Strict(q.body) /\ err \in NotJson
         /\ req' = [req EXCEPT ![r] = [q EXCEPT !.pc = "done", !.thrown = err,
                                                !.res = ErrorHandler(err, env)]]
    /\ UNCHANGED <<notes, now, outside>>

\* a plausible slip: authenticateUser without its try and catch; the
\* rejection is left unhandled and nothing answers the request
ProviderThrowsUnhandled(r, failures) ==
    /\ req[r].pc = "getUser"
    /\ \E err \in failures :
         req' = [req EXCEPT ![r].pc = "unhandled", ![r].thrown = err]
    /\ UNCHANGED <<notes, now, outside>>

\* supabase.auth.getUser rejects: the catch of authenticateUser calls
\* next(err)
ProviderThrows(r, failures) ==
    /\ req[r].pc = "getUser"
    /\ \E err \in failures :
         req' = [req EXCEPT ![r].pc = "done", ![r].thrown = err,
                            ![r].res = ErrorHandler(err, env)]
    /\ UNCHANGED <<notes, now, outside>>

StoreCalls == {"create", "findMany", "findUnique", "update"}

\* a prisma.note call rejects: wrapAsync's catch calls next(err)
StoreThrows(r, failures) ==
    /\ req[r].pc \in StoreCalls
    /\ \E err \in failures :
         req' = [req EXCEPT ![r].pc = "done", ![r].call = NoCall,
                            ![r].thrown = err,
                            ![r].res = ErrorHandler(err, env)]
    /\ UNCHANGED <<notes, now, outside>>

\* the response has been sent: the slot takes the next request
Retire(r) ==
    /\ req[r].pc = "done"
    /\ req' = [req EXCEPT ![r] = Idle]
    /\ UNCHANGED <<notes, now, outside>>

(***************************************************************************)
(* Spec: the server with MaxReq requests in flight, each drawing its       *)
(* inputs from the small sets; SpecInputs: one request at a time, drawing  *)
(* from every input of the model.                                          *)
(***************************************************************************)
\* the requests that arrive with a payload (Undefined: one that is not
\* read): their method and header
Arrivals(methods, headers, payloads) ==
    {[Idle EXCEPT !.method = m, !.header = h, !.body = b] :
        m \in methods, h \in headers, b \in payloads}

Next ==
    \E r \in Slots :
        \/ Unparsed(r, Arrivals({"POST"}, OwnerHeaders, {Malformed}), NotJson)
        \/ Arrive(r, Methods, SomeHeaders)
        \/ AuthReject(r)
        \/ PostNotes(r, NewBodies)
        \/ StoreCreate(r)
        \/ GetNotes(r, SomeLimits, SomeOffsets)
        \/ StoreFindMany(r)
        \/ DeleteNote(r, SomeIds)
        \/ DeleteFound(r)
        \/ DeleteApply(r)
        \/ PutNote(r, SomeIds, EditBodies)
        \/ PutFound(r)
        \/ PutApply(r)
        \/ Retire(r)

Spec == Init /\ [][Next]_vars

NextInputs ==
    \/ Unparsed(1, Arrivals(Methods, Headers, Payloads \cup {Undefined}),
                ParserFailures)
    \/ Arrive(1, Methods, Headers)
    \/ AuthReject(1)
    \/ PostNotes(1, Bodies)
    \/ StoreCreate(1)
    \/ GetNotes(1, Limits, Offsets)
    \/ StoreFindMany(1)
    \/ DeleteNote(1, IdParams)
    \/ DeleteFound(1)
    \/ DeleteApply(1)
    \/ PutNote(1, IdParams, Bodies)
    \/ PutFound(1)
    \/ PutApply(1)
    \/ Retire(1)

SpecInputs == Init /\ [][NextInputs]_vars

(***************************************************************************)
(* SpecEdits: the owner creating notes and editing them, MaxReq requests   *)
(* in flight, the edits carrying different titles and contents.            *)
(***************************************************************************)
NextEdits ==
    \E r \in Slots :
        \/ Arrive(r, {"POST", "PUT"}, OwnerHeaders)
        \/ PostNotes(r, FirstBodies)
        \/ StoreCreate(r)
        \/ PutNote(r, NoteIdParams, TwoBodies)
        \/ PutFound(r)
        \/ PutApply(r)
        \/ Retire(r)

SpecEdits == Init /\ [][NextEdits]_vars

(***************************************************************************)
(* SpecSessions: requests that create and list notes, MaxReq in flight,    *)
(* while the provider may stop accepting a token at any moment.            *)
(***************************************************************************)
NextSessions ==
    \/ \E r \in Slots :
          \/ Arrive(r, {"POST", "GET"}, SomeHeaders)
          \/ AuthReject(r)
          \/ PostNotes(r, NewBodies)
          \/ StoreCreate(r)
          \/ GetNotes(r, SomeLimits, SomeOffsets)
          \/ StoreFindMany(r)
          \/ Retire(r)
    \/ \E token \in Issued : Revoke(token)

SpecSessions == Init /\ [][NextSessions]_vars

(***************************************************************************)
(* The paging client: it asks for the list in pages of PageSize notes, at  *)
(* the offsets 0, PageSize, 2 * PageSize, ..., and stops at the first page *)
(* that is not full.  SpecPager runs it against GET /notes over a table    *)
(* that no request writes: the caller's active notes, one note of another  *)
(* user, one soft-deleted note of the caller.                              *)
(***************************************************************************)
PageSize == 10

\* how many active notes the caller has: around each page boundary
PagerCounts == {(p - 1) * PageSize + d : p \in 1..MaxPages, d \in {0, 1}}

\* a table after n POSTs of user-1, one of user-2, one more of user-1 and
\* its DELETE, a millisecond apart; for tie > 0 the notes tie - 1 and tie
\* were created in the same millisecond
PagerStore(n, tie) ==
    [i \in 1..(n + 2) |->
        [id |-> i,
         title |-> Str("n", 1),
         content |-> Null,
         userId |-> IF i = n + 1 THEN "user-2" ELSE "user-1",
         createdAt |-> Date(IF i = tie THEN i - 1 ELSE i),
         deletedAt |-> IF i = n + 2 THEN Date(n + 3) ELSE Null]]

InitPager ==
    /\ \E n \in PagerCounts : \E tie \in {0} \cup 2..n :
         /\ notes = PagerStore(n, tie)
         /\ now = n + 3
    /\ req = [r \in Slots |-> Idle]
    /\ env = Text("production")
    /\ accepted = Issued
    /\ pager = NoPages

\* the text of an offset in the query string
OffsetText(k) == IF k = 0 THEN Text("0") ELSE Text(Digits[k])

\* fetchNotes: the client sends GET /notes?limit=10&offset=pageParam with
\* the token of its session
PagerAsk(r) ==
    /\ ~pager.stopped
    /\ Arrive(r, {"GET"}, OwnerHeaders)

PagerQuery(r) ==
    GetNotes(r, {Text(Digits[PageSize])}, {OffsetText(pager.offset)})

\* the client receives the page and keeps it with the earlier ones
\* (data.pages.flat()); getNextPageParam: no next page after a page of
\* fewer than PageSize notes, else the next offset is the number of pages
\* received times PageSize
PagerTake(r) ==
    /\ req[r].pc = "done"
    /\ req[r].res.status = 200
    /\ LET lastPage == req[r].res.json
           allPages == pager.pages + 1
           full == Len(lastPage) >= PageSize
       IN pager' = [offset |-> IF full THEN allPages * PageSize
                               ELSE pager.offset,
                    seen |-> pager.seen
                             \o [k \in 1..Len(lastPage) |-> lastPage[k].id],
                    pages |-> allPages,
                    stopped |-> ~full]
    /\ req' = [req EXCEPT ![r] = Idle]
    /\ UNCHANGED <<notes, now, env, accepted>>

NextPager ==
    \/ PagerAsk(1)
    \/ PagerQuery(1)
    \/ StoreFindMany(1)
    \/ PagerTake(1)

SpecPager == InitPager /\ [][NextPager]_vars

(***************************************************************************)
(* SpecWhole: one request at a time, its path parameter and its body       *)
(* fixed from its arrival on; the handlers read what the request carries.  *)
(***************************************************************************)
\* a POST arrives while the table has room for its note
Arriving == IF Len(notes) < MaxNotes THEN Methods ELSE Methods \ {"POST"}

\* the requests that arrive with a payload that is no JSON
Garbled == {[Request(m, h, p, Undefined) EXCEPT !.body = Malformed] :
               m \in Methods, h \in Headers, p \in IdParams}

NextWhole ==
    \/ Unparsed(1, Garbled, NotJson)
    \/ ArriveWith(1, Arriving, Headers, IdParams, Bodies)
    \/ AuthReject(1)
    \/ PostNotes(1, BodyGiven(1))
    \/ StoreCreate(1)
    \/ GetNotes(1, SomeLimits, SomeOffsets)
    \/ StoreFindMany(1)
    \/ DeleteNote(1, IdGiven(1))
    \/ DeleteFound(1)
    \/ DeleteApply(1)
    \/ PutNote(1, IdGiven(1), BodyGiven(1))
    \/ PutFound(1)
    \/ PutApply(1)
    \/ Retire(1)

SpecWhole == Init /\ [][NextWhole]_vars

(***************************************************************************)
(* SpecFaults: one request at a time, its body, its store calls and its    *)
(* provider call free to fail, NODE_ENV assigned while the server runs (as *)
(* the test suite does).  SpecLive adds the scheduling: the                *)
(* provider and the store settle every call, and Node runs every           *)
(* continuation that is ready.                                             *)
(***************************************************************************)
InitFaults ==
    /\ notes = <<>>
    /\ now = 0
    /\ req = [r \in Slots |-> Idle]
    /\ env = Text("production")
    /\ accepted = Issued
    /\ pager = NoPages

\* a step of the request in slot r after its arrival
Step(r) ==
    \/ AuthReject(r)
    \/ ProviderThrows(r, ProviderFailures)
    \/ PostNotes(r, NewBodies)
    \/ StoreCreate(r)
    \/ GetNotes(r, SomeLimits, SomeOffsets)
    \/ StoreFindMany(r)
    \/ DeleteNote(r, SomeIds)
    \/ DeleteFound(r)
    \/ DeleteApply(r)
    \/ PutNote(r, SomeIds, EditBodies)
    \/ PutFound(r)
    \/ PutApply(r)
    \/ StoreThrows(r, StoreFailures)

NextFaults ==
    \/ \E mode \in Modes : SetEnv(mode)
    \/ Unparsed(1, Arrivals(Methods, SomeHeaders, {Malformed, Undefined}),
                ParserFailures)
    \/ Arrive(1, Methods, SomeHeaders)
    \/ Step(1)
    \/ Retire(1)

SpecFaults == InitFaults /\ [][NextFaults]_vars

SpecLive == SpecFaults /\ WF_vars(Step(1))

(***************************************************************************)
(* Properties.                                                             *)
(***************************************************************************)
\* the steps of a request r: its lookup is answered, its write is applied
Looked(r) == req[r].pc = "findUnique" /\ req'[r].pc # "findUnique"
Wrote(r) == req[r].pc = "update" /\ req'[r].pc = "done"
\* the note id a finished PUT or DELETE named in its path
IdOf(r) == Number(req[r].id.s).v
Finished(r, m) == req[r].pc = "done" /\ req[r].method = m

\* C1: a successful GET /notes returns only notes of the caller, and none
\* that is soft-deleted, whatever requests came before or run beside it.
C1_ListOwnActive ==
    \A r \in Slots :
        (Finished(r, "GET") /\ req[r].res.status = 200) =>
            \A k \in 1..Len(req[r].res.json) :
                /\ req[r].res.json[k].userId = req[r].user.id
                /\ req[r].res.json[k].deletedAt = Null

\* a listing of one note out of a store of two: the other note is foreign
\* or deleted
C1_Witness ==
    \E r \in Slots :
        /\ Finished(r, "GET") /\ req[r].res.status = 200
        /\ Len(req[r].res.json) = 1
        /\ Len(notes) = 2

\* C2: every write to an existing note is applied for a request whose user
\* is the note's owner; a PUT or DELETE whose lookup finds a note of another
\* user is answered 403 and ends there, with the store as it was.
C2_OnlyOwnerWrites ==
    [][/\ \A i \in NoteIds :
            notes'[i] # notes[i] =>
                \E r \in Slots : /\ Wrote(r)
                                 /\ req[r].call.id = i
                                 /\ req[r].user.id = notes[i].userId
       /\ \A r \in Slots :
            (/\ Looked(r)
             /\ req[r].call.id \in NoteIds
             /\ notes[req[r].call.id].userId # req[r].user.id)
            => /\ req'[r].pc = "done"
               /\ req'[r].res.status = 403
               /\ req'[r].ops = <<"findUnique">>
               /\ notes' = notes]_vars

\* a PUT or DELETE on a note of another user has been answered 403
C2_Witness ==
    \E r \in Slots :
        /\ req[r].pc = "done" /\ req[r].method \in {"PUT", "DELETE"}
        /\ req[r].res.status = 403
        /\ IdOf(r) \in NoteIds
        /\ notes[IdOf(r)].userId # req[r].user.id

\* C3: a PUT or DELETE that passed the id and body gates gets the very same
\* response, 403 {error: "Forbidden"}, when its lookup finds no note and
\* when it finds a note of another user, active or soft-deleted.
C3_ForbiddenIsOpaque ==
    [][\A r \in Slots :
          (/\ Looked(r)
           /\ \/ req[r].call.id \notin NoteIds
              \/ notes[req[r].call.id].userId # req[r].user.id)
          => /\ req'[r].pc = "done"
             /\ req'[r].res = Fail(403, "Forbidden", Undefined)]_vars

\* two finished PUTs with the same response: one named an id that no note
\* has, the other a soft-deleted note of another user
C3_Witness ==
    \E r1, r2 \in Slots :
        /\ Finished(r1, "PUT") /\ Finished(r2, "PUT")
        /\ req[r1].res.status = 403 /\ req[r2].res = req[r1].res
        /\ IdOf(r1) \notin NoteIds
        /\ IdOf(r2) \in NoteIds
        /\ notes[IdOf(r2)].userId # req[r2].user.id
        /\ notes[IdOf(r2)].deletedAt # Null

\* C4: a DELETE by the owner sets deletedAt to a non-null value and answers
\* 200 {success: true}; a PUT by the owner whose lookup comes after that
\* (every PUT that starts once the DELETE is answered) is answered
\* 400 "Cannot modify deleted note" and ends without a write.
C4_DeleteThenPutRefused ==
    [][\A r \in Slots :
          /\ (Wrote(r) /\ req[r].method = "DELETE")
             => /\ notes'[req[r].call.id].deletedAt # Null
                /\ notes'[req[r].call.id].userId = req[r].user.id
                /\ req'[r].res = Ok([success |-> TRUE])
          /\ (/\ Looked(r) /\ req[r].method = "PUT"
              /\ req[r].call.id \in NoteIds
              /\ notes[req[r].call.id].userId = req[r].user.id
              /\ notes[req[r].call.id].deletedAt # Null)
             => /\ req'[r].pc = "done"
                /\ req'[r].res = Fail(400, "Cannot modify deleted note", Undefined)
                /\ req'[r].ops = <<"findUnique">>
                /\ notes' = notes]_vars

\* the owner's DELETE has been answered 200 and the owner's PUT on the same
\* note 400 "Cannot modify deleted note"
C4_Witness ==
    \E r1, r2 \in Slots :
        /\ Finished(r1, "DELETE") /\ req[r1].res.status = 200
        /\ Finished(r2, "PUT")
        /\ req[r2].res.error = "Cannot modify deleted note"
        /\ IdOf(r1) = IdOf(r2)
        /\ notes[IdOf(r1)].deletedAt # Null

\* C5 (as claimed): no step changes the title or the content of a note
\* whose deletedAt is already non-null.
C5_NoEditOfDeleted ==
    [][\A i \in NoteIds :
          notes[i].deletedAt # Null =>
              /\ notes'[i].title = notes[i].title
              /\ notes'[i].content = notes[i].content]_vars

\* C6: once the deletedAt of a note is non-null, it is non-null after every
\* step.
C6_DeletedAtMonotonic ==
    [][\A i \in NoteIds :
          notes[i].deletedAt # Null => notes'[i].deletedAt # Null]_vars

\* a write has been applied to a soft-deleted note (a PUT answered 200) and
\* the note is still soft-deleted
C6_Witness ==
    \E r \in Slots :
        /\ Finished(r, "PUT") /\ req[r].res.status = 200
        /\ req[r].res.json.deletedAt # Null
        /\ notes[IdOf(r)].deletedAt # Null

\* C7 (as claimed): no step changes any field of a note whose deletedAt is
\* already non-null, deletedAt included.
C7_DeletedIsImmutable ==
    [][\A i \in NoteIds :
          notes[i].deletedAt # Null => notes'[i] = notes[i]]_vars

\* what the data model accepts: a title of 1..200 characters, the content
\* absent or of 0..5000 characters
GoodTitle(v) == v.t = "string" /\ v.len >= 1 /\ v.len <= 200
GoodContent(v) == v.t = "undefined" \/ (v.t = "string" /\ v.len <= 5000)
GoodBody(b) == b.t = "object" /\ GoodTitle(b.title) /\ GoodContent(b.content)
\* the fields of an object body that are not acceptable
Offending(b) == (IF GoodTitle(b.title) THEN {} ELSE {"title"})
                \cup (IF GoodContent(b.content) THEN {} ELSE {"content"})
\* an :id that names a positive integer
GoodId(id) == id.t = "text" /\ Number(id.s).kind = "int" /\ Number(id.s).v > 0

\* C8: an authenticated POST /notes with an acceptable body goes on to create
\* a note and is answered 200; the create adds exactly one row, with the
\* user of the token as userId (whatever the body says), the title and
\* content of the body, and deletedAt null.
C8_CreateForCaller ==
    [][\A r \in Slots :
          /\ (/\ req[r].pc = "getUser" /\ req[r].method = "POST"
              /\ req'[r].pc # "getUser"
              /\ req'[r].user # Undefined
              /\ GoodBody(req'[r].body))
             => req'[r].pc = "create"
          /\ (req[r].pc = "create" /\ req'[r].pc = "done")
             => LET row == req'[r].res.json
                    body == req[r].body
                    u == CHOOSE a \in GetUser(req[r].token) : TRUE
                IN /\ GoodBody(body)
                   /\ req'[r].res.status = 200
                   /\ notes' = Append(notes, row)
                   /\ row.id = Len(notes) + 1
                   /\ row.userId = u.user.id
                   /\ row.title = body.title
                   /\ row.content = IF body.content = Undefined THEN Null
                                    ELSE body.content
                   /\ row.deletedAt = Null]_vars

\* a POST whose body carried a userId of another user has been answered 200
\* with a note of the caller
C8_Witness ==
    \E r \in Slots :
        /\ Finished(r, "POST") /\ req[r].res.status = 200
        /\ req[r].body.userId = Str("user-2", 1)
        /\ req[r].token = <<"tok-1">>
        /\ req[r].res.json.userId = "user-1"
        /\ req[r].res.json.deletedAt = Null

\* the caller of r holds a token that the provider accepts
Holder(r) == TokenOf(req[r].header) \in accepted

\* C9: a POST /notes, or PUT /notes/:id with a valid id, of a caller with an
\* accepted token, whose JSON body is not acceptable (a title that is empty,
\* too long, missing or no string, a content that is too long or no string,
\* a body that is no object) is answered 400 "Invalid input" with details
\* that name the offending fields, and it performs no store operation.
C9_InvalidInput ==
    \A r \in Slots :
        (/\ req[r].pc = "done" /\ req[r].method \in {"POST", "PUT"}
         /\ Holder(r)
         /\ req[r].method = "PUT" => GoodId(req[r].id)
         /\ req[r].body \notin {Undefined, Malformed}
         /\ ~GoodBody(req[r].body))
        => /\ req[r].res.status = 400
           /\ req[r].res.error = "Invalid input"
           /\ req[r].res.details # Undefined
           /\ DOMAIN req[r].res.details.fieldErrors # {}
           /\ \A f \in DOMAIN req[r].res.details.fieldErrors :
                req[r].res.details.fieldErrors[f] # <<>>
           /\ req[r].body.t = "object"
              => DOMAIN req[r].res.details.fieldErrors = Offending(req[r].body)
           /\ req[r].ops = <<>>

\* a header that carries no token: absent, or of empty value
NoBearer(h) == h = Undefined \/ h.parts = <<>>

\* C10: on every route, a request without a token is answered 401 "Missing
\* token" and the provider is not asked; a request whose token the provider
\* refuses, or answers without a user, is answered 401 "Invalid token"; in
\* both cases no store operation is performed and no user is attached.
C10_Unauthenticated ==
    \A r \in Slots :
        req[r].pc = "done" =>
            /\ NoBearer(req[r].header)
               => /\ req[r].res = Fail(401, "Missing token", Undefined)
                  /\ ~req[r].asked
                  /\ req[r].ops = <<>>
                  /\ req[r].user = Undefined
            /\ (~NoBearer(req[r].header)
                /\ \A a \in GetUser(TokenOf(req[r].header)) : Refused(a))
               => /\ req[r].res = Fail(401, "Invalid token", Undefined)
                  /\ req[r].asked
                  /\ req[r].ops = <<>>
                  /\ req[r].user = Undefined

\* C11: a request has a store call pending or performed only once its own
\* token has been verified and the token's user attached; a request whose
\* token is missing or refused is answered 401 without any store call,
\* whatever its path parameter and body are (invalid ones included).
C11_AuthenticateFirst ==
    \A r \in Slots :
        /\ (req[r].pc \in StoreCalls \/ req[r].ops # <<>>)
           => /\ req[r].asked
              /\ req[r].token \in Issued
              /\ req[r].user = UserOf(UserIdOf(req[r].token))
        /\ (req[r].pc = "done"
            /\ (NoBearer(req[r].header) \/ TokenOf(req[r].header) \notin Issued))
           => /\ req[r].res.status = 401
              /\ req[r].ops = <<>>

\* the request r is answered in this step
Answered(r) == req[r].pc # "done" /\ req'[r].pc = "done"

\* C12: a request whose provider call or store call throws a failure that
\* carries no status is answered 500 (never 401); the error of the body is
\* "Internal Server Error" when the mode at that moment is any but
\* development, and the failure's message when it is development.
C12_FailureIs500 ==
    [][\A r \in Slots :
        (/\ Answered(r)
         /\ req'[r].thrown # Undefined
         /\ req'[r].thrown.status = Undefined)
        => /\ req'[r].res.status = 500
           /\ env # Text("development")
              => req'[r].res.error = "Internal Server Error"
           /\ env = Text("development")
              => req'[r].res.error = req'[r].thrown.message.s]_vars

\* in development, a request whose provider call failed in transport has
\* been answered 500 with the failure's message
C12_Witness ==
    \E r \in Slots :
        /\ req[r].pc = "done"
        /\ env = Text("development")
        /\ req[r].thrown = Err("fetch failed", Undefined, Undefined)
        /\ req[r].ops = <<>>
        /\ req[r].res.status = 500
        /\ req[r].res.error = "fetch failed"

\* C13: every request that has arrived is answered in the end, the
\* provider and the store settling each call (by an answer or a failure);
\* a request has a response exactly when it is finished, and its response
\* is never replaced by a second one.
C13_ExactlyOneResponse ==
    /\ \A r \in Slots : (req[r].pc # "idle") ~> (req[r].pc = "done")
    /\ [](\A r \in Slots : (req[r].pc = "done") <=> (req[r].res # NoResponse))
    /\ [][\A r \in Slots :
            req[r].res # NoResponse =>
                (req'[r].res = req[r].res \/ req'[r] = Idle)]_vars

\* a request has been answered after the store rejected its write, its
\* lookup done before
C13_Witness ==
    \E r \in Slots :
        /\ req[r].pc = "done"
        /\ req[r].thrown \in StoreFailures
        /\ req[r].ops = <<"findUnique">>
        /\ req[r].res.status = 500

\* the query parameters that are no number, and the negative ones
NotANumber(q) == q = Undefined \/ Number(q.s).kind = "nan"
Negative(q) == q # Undefined /\ Number(q.s).kind # "nan" /\ Number(q.s).v < 0

\* C14: the limit that GET /notes passes to the store is at most 100, and
\* is 10 when the limit parameter is absent or not a number; the offset it
\* passes is never negative, and is 0 when the offset parameter is absent,
\* not a number or negative.
C14_Clamp ==
    \A r \in Slots :
        req[r].pc = "findMany" =>
            /\ req[r].call.take <= 100
            /\ NotANumber(req[r].query.limit) => req[r].call.take = 10
            /\ req[r].call.skip >= 0
            /\ (NotANumber(req[r].query.offset) \/ Negative(req[r].query.offset))
               => req[r].call.skip = 0

\* the active notes of user u, newest first: every arrangement of them in
\* which createdAt never increases
NewestFirst(u) ==
    LET mine == {i \in NoteIds : notes[i].userId = u /\ notes[i].deletedAt = Null}
        n == Cardinality(mine)
    IN {s \in [1..n -> mine] :
          /\ \A i \in mine : \E k \in 1..n : s[k] = i
          /\ \A k \in 1..(n - 1) :
               notes[s[k]].createdAt.ms >= notes[s[k + 1]].createdAt.ms}
\* the rows of s after its first k, at most L of them
Page(s, k, L) ==
    LET last == Min(Len(s), k + L) IN
    [j \in 1..Max(0, last - k) |-> notes[s[k + j]]]

\* C15 (as claimed): the answer of GET /notes to caller u, with the limit L
\* and the offset k it passes to the store, is status 200 with the active
\* notes of u sorted by createdAt descending, the first k dropped and at
\* most the next L kept (the empty array when there is none past k).
C15_ListWindow ==
    [][\A r \in Slots :
          (/\ req[r].pc = "findMany" /\ req'[r].pc = "done"
           /\ req'[r].thrown = Undefined)
          => /\ req'[r].res.status = 200
             /\ \E s \in NewestFirst(req[r].user.id) :
                  req'[r].res.json = Page(s, req[r].call.skip, req[r].call.take)]_vars

\* the title and content a body or a row carries
PairOf(x) == <<x.title, x.content>>

\* C16: each write of a PUT stores the title and the content of that PUT's
\* own body together and the PUT is answered 200 with the row as written,
\* so that after concurrent PUTs of the owner on one note the stored pair
\* is the pair of the PUT whose write came last; the pair of a note is
\* always a pair one request sent whole, never a mix of two requests.
C16_LastWriteWins ==
    [][/\ \A r \in Slots :
            (Wrote(r) /\ req[r].method = "PUT")
            => /\ PairOf(notes'[req[r].call.id]) = PairOf(req[r].body)
               /\ req'[r].res = Ok(notes'[req[r].call.id])
       /\ \A i \in 1..Len(notes') :
            \E b \in FirstBodies \cup TwoBodies :
                PairOf(notes'[i]) = PairOf(b)]_vars

\* two PUTs of the owner on the same note, with different titles and
\* contents, have both been answered 200; the note holds the pair of one
\* of them and the answer given to the other is no longer what is stored
C16_Witness ==
    \E r1, r2 \in Slots :
        /\ Finished(r1, "PUT") /\ Finished(r2, "PUT")
        /\ req[r1].res.status = 200 /\ req[r2].res.status = 200
        /\ IdOf(r1) = IdOf(r2)
        /\ PairOf(req[r1].body) # PairOf(req[r2].body)
        /\ PairOf(notes[IdOf(r1)]) = PairOf(req[r2].body)
        /\ PairOf(req[r1].res.json) = PairOf(req[r1].body)

\* C17: every request that carries a token asks the provider itself, and
\* what it does next follows the provider's answer at that moment: if the
\* provider does not accept the token now (also one it accepted for an
\* earlier request) the request is answered 401 "Invalid token" and no
\* user is attached; otherwise the user attached is the one the provider
\* resolves for that token.
C17_VerifiedPerRequest ==
    [][\A r \in Slots :
          /\ (req[r].pc = "idle" /\ req'[r].pc # "idle" /\ req'[r].token # <<>>)
             => (req'[r].pc = "getUser" /\ req'[r].asked)
          /\ (req[r].pc = "getUser" /\ req'[r].pc # "getUser")
             => IF req[r].token \in accepted
                THEN req'[r].user = UserOf(UserIdOf(req[r].token))
                ELSE /\ req'[r].pc = "done"
                     /\ req'[r].res = Fail(401, "Invalid token", Undefined)
                     /\ req'[r].user = Undefined]_vars

\* one request with tok-1 has been answered 200, and another request with
\* the same token, verified after the provider stopped accepting it, 401
C17_Witness ==
    \E r1, r2 \in Slots :
        /\ req[r1].pc = "done" /\ req[r2].pc = "done"
        /\ req[r1].token = <<"tok-1">> /\ req[r2].token = <<"tok-1">>
        /\ req[r1].res.status = 200
        /\ req[r2].res = Fail(401, "Invalid token", Undefined)
        /\ <<"tok-1">> \notin accepted

\* the fields of the rows i in which notes and notes' differ
Changed(i) == {f \in DOMAIN notes[i] : notes'[i][f] # notes[i][f]}
Created(r) == req[r].pc = "create" /\ req'[r].pc = "done"

\* C18: the write of a PUT answered 200 changes at most the title and the
\* content of the note it names, the write of a DELETE answered 200 at
\* most its deletedAt, and neither changes another note; a POST answered
\* 200 adds one row after the existing ones and changes none of them; no
\* other step (GET, refusals, lookups) changes the table; the id, userId and
\* createdAt of an existing note never change.
C18_Frame ==
    [][/\ Len(notes') >= Len(notes)
       /\ \A i \in NoteIds : Changed(i) \cap {"id", "userId", "createdAt"} = {}
       /\ \A r \in Slots :
            /\ (Wrote(r) /\ req[r].method = "PUT")
               => /\ req'[r].res.status = 200
                  /\ Len(notes') = Len(notes)
                  /\ Changed(req[r].call.id) \subseteq {"title", "content"}
                  /\ \A i \in NoteIds \ {req[r].call.id} : Changed(i) = {}
            /\ (Wrote(r) /\ req[r].method = "DELETE")
               => /\ req'[r].res.status = 200
                  /\ Len(notes') = Len(notes)
                  /\ Changed(req[r].call.id) \subseteq {"deletedAt"}
                  /\ \A i \in NoteIds \ {req[r].call.id} : Changed(i) = {}
            /\ Created(r)
               => /\ req'[r].res.status = 200
                  /\ Len(notes') = Len(notes) + 1
                  /\ \A i \in NoteIds : Changed(i) = {}
       /\ (\A r \in Slots : ~Wrote(r) /\ ~Created(r)) => notes' = notes]_vars

\* of two notes of one user, one has been edited by a PUT answered 200 and
\* the other soft-deleted by a DELETE answered 200; each still has its id,
\* and the edited one is not deleted, the deleted one not edited
C18_Witness ==
    \E r1, r2 \in Slots :
        /\ Finished(r1, "PUT") /\ req[r1].res.status = 200
        /\ Finished(r2, "DELETE") /\ req[r2].res.status = 200
        /\ IdOf(r1) # IdOf(r2)
        /\ notes[IdOf(r1)].title = Str("n", 1)
        /\ notes[IdOf(r1)].deletedAt = Null
        /\ notes[IdOf(r2)].title = Str("T", TitleMax)
        /\ notes[IdOf(r2)].deletedAt # Null
        /\ \A i \in NoteIds : notes[i].id = i

\* the request r leaves authenticateUser with its user attached
Admitted(r, m) ==
    /\ req[r].pc = "getUser" /\ req[r].method = m
    /\ req'[r].pc # "getUser" /\ req'[r].user # Undefined
\* the note a lookup of r finds is absent or of another user; is deleted
Foreign(r) == \/ req[r].call.id \notin NoteIds
              \/ notes[req[r].call.id].userId # req[r].user.id
Gone(r) == notes[req[r].call.id].deletedAt # Null

\* C19: an authenticated PUT is refused by the first gate that fails, in
\* the order id, body, ownership, deleted state: an id that is no positive
\* integer gives 400 "Invalid note id" whatever the body; else a body that
\* is not acceptable gives 400 "Invalid input" with no lookup, whomever the
\* note belongs to; else the lookup is made, and a note absent or of
\* another user gives 403 also when it is deleted; else a deleted note
\* gives 400 "Cannot modify deleted note"; else the write is issued.  For
\* DELETE: the id gate, then the lookup and the ownership gate, then the
\* write.
C19_GateOrder ==
    [][\A r \in Slots :
          /\ Admitted(r, "PUT") =>
                IF ~GoodId(req'[r].id)
                THEN /\ req'[r].pc = "done"
                     /\ req'[r].res = Fail(400, "Invalid note id", Undefined)
                ELSE IF ~GoodBody(req'[r].body)
                THEN /\ req'[r].pc = "done"
                     /\ req'[r].res.status = 400
                     /\ req'[r].res.error = "Invalid input"
                     /\ req'[r].ops = <<>>
                ELSE req'[r].pc = "findUnique"
          /\ (Looked(r) /\ req[r].method = "PUT") =>
                IF Foreign(r)
                THEN /\ req'[r].pc = "done"
                     /\ req'[r].res = Fail(403, "Forbidden", Undefined)
                ELSE IF Gone(r)
                THEN /\ req'[r].pc = "done"
                     /\ req'[r].res =
                            Fail(400, "Cannot modify deleted note", Undefined)
                ELSE req'[r].pc = "update"
          /\ Admitted(r, "DELETE") =>
                IF ~GoodId(req'[r].id)
                THEN /\ req'[r].pc = "done"
                     /\ req'[r].res = Fail(400, "Invalid note id", Undefined)
                ELSE req'[r].pc = "findUnique"
          /\ (Looked(r) /\ req[r].method = "DELETE") =>
                IF Foreign(r)
                THEN /\ req'[r].pc = "done"
                     /\ req'[r].res = Fail(403, "Forbidden", Undefined)
                ELSE req'[r].pc = "update"]_vars

\* a PUT by user-1 that names a note of user-2 and carries a body that is
\* not acceptable has been answered 400 "Invalid input" without a lookup
C19_Witness ==
    \E r \in Slots :
        /\ Finished(r, "PUT")
        /\ req[r].user # Undefined
        /\ GoodId(req[r].id) /\ IdOf(r) \in NoteIds
        /\ notes[IdOf(r)].userId # req[r].user.id
        /\ ~GoodBody(req[r].body)
        /\ req[r].res.error = "Invalid input"
        /\ req[r].ops = <<>>

\* C20 (as claimed): an authenticated PUT with a valid id whose body has
\* the empty string as title is answered 400 "Title required", and the
\* store is neither read nor written for it.
C20_TitleRequired ==
    \A r \in Slots :
        (/\ Finished(r, "PUT")
         /\ req[r].user # Undefined
         /\ GoodId(req[r].id)
         /\ req[r].body.t = "object"
         /\ req[r].body.title = Str("", 0))
        => /\ req[r].res.status = 400
           /\ req[r].res.error = "Title required"
           /\ req[r].ops = <<>>

\* C21 (as claimed): whatever the limit parameter is (absent, no number,
\* zero, negative, any integer), the limit that GET /notes passes to the
\* store is an integer from 1 to 100.
C21_LimitInRange ==
    \A r \in Slots :
        req[r].pc = "findMany" => req[r].call.take \in 1..100

\* the active notes of user-1, the caller of the paging client
Mine == {i \in NoteIds : notes[i].userId = "user-1" /\ notes[i].deletedAt = Null}
Times(i) == Cardinality({k \in 1..Len(pager.seen) : pager.seen[k] = i})

\* C22 (as claimed): with no write between the page requests, the client
\* that fetches pages of 10 at the offsets 0, 10, 20, ... and stops at the
\* first page of fewer than 10 notes has then received every active note of
\* the caller exactly once and nothing else, also when notes share their
\* createdAt; it stops after finitely many page requests (one more than
\* the full pages the caller's notes fill).
C22_PagesCoverOnce ==
    /\ pager.pages <= (Cardinality(Mine) \div PageSize) + 1
    /\ pager.stopped =>
          /\ \A i \in Mine : Times(i) = 1
          /\ \A k \in 1..Len(pager.seen) : pager.seen[k] \in Mine

=============================================================================
